---- MODULE Spec2Model ----
(***************************************************************************)
(* Model of the DailyUse onboarding flow (src/authFlow.ts): the Firestore  *)
(* collection of user profiles, the routing decision handleLogin and the   *)
(* two profile mutations completeWelcomeStep and approveUser.              *)
(*                                                                         *)
(* handleLogin awaits two store calls (getDoc, then setDoc when the        *)
(* profile is absent); other calls may run between the two, so it is two   *)
(* actions.  completeWelcomeStep and approveUser await one updateDoc each  *)
(* and are one action each.                                                *)
(***************************************************************************)
EXTENDS Integers, FiniteSets, Sequences, TLC

\* ---- bounds -------------------------------------------------------------
\* Largest server time.  Every committed write gets a later server time than
\* the one before it, so this also bounds the writes of a behaviour.
MaxTime == 3
\* Number of handleLogin calls that can await their setDoc at the same time.
MaxInFlight == 2

\* ---- values -------------------------------------------------------------
Null == "<null>"
Undefined == "<undefined>"

\* Document keys of the users collection.
Uids == {"u1", "u2"}

\* A null/undefined user object handed to handleLogin.
NullUser == [isNull |-> TRUE]

\* interface FirebaseUser; the uid may be missing or empty at run time.
FirebaseUser ==
    { [uid |-> "u1", email |-> "a@x", displayName |-> "Ann"],
      [uid |-> "u1", email |-> Null, displayName |-> Null],
      [uid |-> "u2", email |-> "b@x", displayName |-> Null],
      [uid |-> "", email |-> "a@x", displayName |-> "Ann"],
      [uid |-> Undefined, email |-> Null, displayName |-> Null],
      NullUser }

\* Designations the welcome wizard submits.
Designations == {"", "engineer"}

\* type OnboardingStatus
OnboardingStatus == {"pending_profile", "pending_admin_approval", "active"}

\* additionalData objects passed to completeWelcomeStep.  The declared type
\* omits uid, isAdmin and onboardingStatus, but a non-literal object with
\* such extra properties is assignable to it, and the object is spread as
\* it is.
NoAdditionalData == [k \in {} |-> Null]
AdditionalData ==
    { NoAdditionalData,
      [designation |-> Null, createdAt |-> 0, updatedAt |-> 0],
      [onboardingStatus |-> "archived"],
      [uid |-> "zz", isAdmin |-> TRUE, onboardingStatus |-> "active"] }

\* type LoginDecision
RedirectWelcome == [action |-> "redirect", destination |-> "welcome"]
RedirectDashboard == [action |-> "redirect", destination |-> "dashboard"]
RedirectAdmin == [action |-> "redirect", destination |-> "admin"]
ErrorDecision(m) == [action |-> "error", message |-> m]

\* Outcomes that are not a LoginDecision.
Resolved == [settled |-> "resolved"]
Suspended == [settled |-> "awaiting setDoc"]
StoreFault == [rejected |-> "store failure"]
NotFoundFault == [rejected |-> "not-found"]

\* ---- state --------------------------------------------------------------
VARIABLES
    store,     \* the users collection: a function from the keys that exist to documents
    now,       \* the server time of the latest committed write
    inflight,  \* per user object, the handleLogin calls that found no profile
               \* and await their setDoc
    last,      \* the most recent step: its operation, arguments, the document
               \* it found at its key, and its outcome
    seen       \* per uid, what has happened so far

vars == <<store, now, inflight, last, seen>>

\* ---- the store (firebase/firestore) -------------------------------------
\* snapshot.exists()
Exists(db, uid) == uid \in DOMAIN db

\* setDoc as a create: an existing document is kept (first write wins).
setDocIfAbsent(db, uid, data) ==
    IF uid \in DOMAIN db
    THEN db
    ELSE [k \in DOMAIN db \cup {uid} |-> IF k = uid THEN data ELSE db[k]]

\* setDoc: full overwrite, creating the document when it is absent.
setDoc(db, uid, data) ==
    [k \in DOMAIN db \cup {uid} |-> IF k = uid THEN data ELSE db[k]]

\* updateDoc: merges the given fields into the existing document.
updateDoc(db, uid, data) ==
    [db EXCEPT ![uid] =
        [f \in DOMAIN db[uid] \cup DOMAIN data |->
            IF f \in DOMAIN data THEN data[f] ELSE db[uid][f]]]

\* getUserProfile without its read: every user looks new.
getUserProfileAlwaysNull(db, uid) == {}

\* getUserProfile: the document at the key as a set, empty for null.
getUserProfile(db, uid) == IF Exists(db, uid) THEN {db[uid]} ELSE {}

\* { ...a, ...b }: the properties of b win.
Spread(a, b) ==
    [f \in DOMAIN a \cup DOMAIN b |-> IF f \in DOMAIN b THEN b[f] ELSE a[f]]

\* ---- src/authFlow.ts ----------------------------------------------------
\* The uid check as "user?.uid == null": an empty uid passes.
MissingUidNullOnly(user) ==
    IF user = NullUser THEN TRUE ELSE user.uid \in {Undefined, Null}

\* !user?.uid
MissingUid(user) ==
    IF user = NullUser THEN TRUE ELSE user.uid \in {Undefined, Null, ""}

\* A default profile whose designation is the empty string instead of null.
DefaultProfileEmptyDesignation(user, t) ==
    [uid |-> user.uid,
     email |-> user.email,
     displayName |-> user.displayName,
     designation |-> "",
     isAdmin |-> FALSE,
     onboardingStatus |-> "pending_profile",
     createdAt |-> t,
     updatedAt |-> t]

\* The profile bootstrapNewUser writes; t is what serverTimestamp() resolves to.
DefaultProfile(user, t) ==
    [uid |-> user.uid,
     email |-> user.email,
     displayName |-> user.displayName,
     designation |-> Null,
     isAdmin |-> FALSE,
     onboardingStatus |-> "pending_profile",
     createdAt |-> t,
     updatedAt |-> t]

\* completeWelcomeStep without "updatedAt: serverTimestamp()".
WelcomeUpdateNoTimestamp(designation, additionalData, t) ==
    Spread([designation |-> designation,
            onboardingStatus |-> "pending_admin_approval"],
           additionalData)

\* The field map completeWelcomeStep hands to updateDoc.
WelcomeUpdate(designation, additionalData, t) ==
    Spread([designation |-> designation,
            onboardingStatus |-> "pending_admin_approval",
            updatedAt |-> t],
           additionalData)

\* approveUser with the defaults of bootstrapNewUser copied into its patch.
ApproveUpdateWithDefaults(t) ==
    [designation |-> Null, isAdmin |-> FALSE,
     onboardingStatus |-> "active", updatedAt |-> t]

\* approveUser that also stamps createdAt.
ApproveUpdateStampsCreatedAt(t) ==
    [onboardingStatus |-> "active", createdAt |-> t, updatedAt |-> t]

\* The field map approveUser hands to updateDoc.
ApproveUpdate(t) ==
    [onboardingStatus |-> "active", updatedAt |-> t]

\* Routing with the status switch ahead of the admin check, which is left
\* to the active branch.
RouteStatusFirst(profile) ==
    CASE profile.onboardingStatus = "pending_profile" -> RedirectWelcome
      [] profile.onboardingStatus = "pending_admin_approval" ->
             ErrorDecision("Awaiting admin approval.")
      [] profile.onboardingStatus = "active" ->
             IF profile.isAdmin THEN RedirectAdmin ELSE RedirectDashboard
      [] OTHER -> ErrorDecision("Invalid onboarding status.")

\* Routing whose default branch sends the user to the welcome page.
RouteDefaultWelcome(profile) ==
    IF profile.isAdmin
    THEN RedirectAdmin
    ELSE CASE profile.onboardingStatus = "pending_admin_approval" ->
                  ErrorDecision("Awaiting admin approval.")
           [] profile.onboardingStatus = "active" -> RedirectDashboard
           [] OTHER -> RedirectWelcome

\* The routing of handleLogin for a profile that exists.
Route(profile) ==
    IF profile.isAdmin
    THEN RedirectAdmin
    ELSE CASE profile.onboardingStatus = "pending_profile" -> RedirectWelcome
           [] profile.onboardingStatus = "pending_admin_approval" ->
                  ErrorDecision("Awaiting admin approval.")
           [] profile.onboardingStatus = "active" -> RedirectDashboard
           [] OTHER -> ErrorDecision("Invalid onboarding status.")

\* ---- the record of the last step ----------------------------------------
\* A call that the store rejects is recorded without its designation and
\* additionalData: it wrote nothing.
\* The document at a key before the step, as a set: empty when there is none.
Found(db, uid) == IF uid \in DOMAIN db THEN {db[uid]} ELSE {}

\* calls lists the store calls the operation has issued up to the end of
\* the step.
Step(op, uid, user, designation, additionalData, before, ret, calls) ==
    [op |-> op, uid |-> uid, user |-> user,
     designation |-> designation, additionalData |-> additionalData,
     before |-> before, ret |-> ret, calls |-> calls]

\* User objects that pass the uid check of handleLogin.
Identified == {user \in FirebaseUser : ~MissingUid(user)}

InFlight == LET Sum[S \in SUBSET Identified] ==
                    IF S = {} THEN 0
                    ELSE LET u == CHOOSE x \in S : TRUE
                         IN inflight[u] + Sum[S \ {u}]
            IN Sum[Identified]

Init ==
    /\ store = [k \in {} |-> Null]
    /\ now = 0
    /\ inflight = [user \in Identified |-> 0]
    /\ last = Step("init", Undefined, NullUser, Null, NoAdditionalData, {}, Resolved, <<>>)
    /\ seen = [uid \in Uids |-> [approved |-> FALSE, gated |-> FALSE, admin |-> FALSE]]

\* ---- actions ------------------------------------------------------------
\* The bookkeeping of a step: for each uid, whether an approveUser has
\* completed on its record (approved), whether a handleLogin has returned
\* "Awaiting admin approval." or redirect-to-dashboard for it (gated), and
\* whether its record has ever had isAdmin = true (admin).
Observe ==
    seen' = [uid \in Uids |->
        [approved |-> \/ seen[uid].approved
                      \/ /\ last'.op = "approveUser"
                         /\ last'.uid = uid
                         /\ last'.ret = Resolved,
         gated |-> \/ seen[uid].gated
                   \/ /\ last'.op = "handleLogin"
                      /\ last'.uid = uid
                      /\ last'.ret \in {ErrorDecision("Awaiting admin approval."),
                                        RedirectDashboard},
         admin |-> \/ seen[uid].admin
                   \/ uid \in DOMAIN store' /\ store'[uid].isAdmin]]

\* handleLogin up to the end of its await of getUserProfile: the uid check,
\* the read, and the routing when the profile exists.  ok is whether getDoc
\* succeeds.
handleLogin(user, ok) ==
    /\ IF MissingUid(user)
       THEN /\ last' = Step("handleLogin", Undefined, user, Null, NoAdditionalData,
                            {}, ErrorDecision("Missing Firebase user data."), <<>>)
            /\ UNCHANGED <<store, now, inflight>>
       ELSE IF ~ok
       THEN /\ last' = Step("handleLogin", user.uid, user, Null, NoAdditionalData,
                            Found(store, user.uid), StoreFault, <<"getDoc">>)
            /\ UNCHANGED <<store, now, inflight>>
       ELSE LET profile == getUserProfile(store, user.uid) IN
            IF profile = {}
            THEN /\ InFlight < MaxInFlight
                 /\ inflight' = [inflight EXCEPT ![user] = @ + 1]
                 /\ last' = Step("handleLogin", user.uid, user, Null, NoAdditionalData,
                                 Found(store, user.uid), Suspended, <<"getDoc">>)
                 /\ UNCHANGED <<store, now>>
            ELSE /\ last' = Step("handleLogin", user.uid, user, Null, NoAdditionalData,
                                 Found(store, user.uid), Route(CHOOSE p \in profile : TRUE),
                                 <<"getDoc">>)
                 /\ UNCHANGED <<store, now, inflight>>
    /\ Observe

\* bootstrapNewUser that retries: a rejected setDoc leaves the call pending.
bootstrapNewUserRetries(user, ok) ==
    /\ inflight[user] > 0
    /\ IF ok
       THEN /\ now < MaxTime
            /\ now' = now + 1
            /\ inflight' = [inflight EXCEPT ![user] = @ - 1]
            /\ store' = setDoc(store, user.uid, DefaultProfile(user, now + 1))
            /\ last' = Step("bootstrapNewUser", user.uid, user, Null, NoAdditionalData,
                            Found(store, user.uid), RedirectWelcome,
                            <<"getDoc", "setDoc">>)
       ELSE /\ last' = Step("bootstrapNewUser", user.uid, user, Null, NoAdditionalData,
                            Found(store, user.uid), StoreFault,
                            <<"getDoc", "setDoc">>)
            /\ UNCHANGED <<store, now, inflight>>
    /\ Observe

\* The rest of a handleLogin that found no profile: the setDoc of
\* bootstrapNewUser and the return.  ok is whether setDoc succeeds.
bootstrapNewUser(user, ok) ==
    /\ inflight[user] > 0
    /\ inflight' = [inflight EXCEPT ![user] = @ - 1]
    /\ IF ok
       THEN /\ now < MaxTime
            /\ now' = now + 1
            /\ store' = setDoc(store, user.uid, DefaultProfile(user, now + 1))
            /\ last' = Step("bootstrapNewUser", user.uid, user, Null, NoAdditionalData,
                            Found(store, user.uid), RedirectWelcome, <<"getDoc", "setDoc">>)
       ELSE /\ last' = Step("bootstrapNewUser", user.uid, user, Null, NoAdditionalData,
                            Found(store, user.uid), StoreFault, <<"getDoc", "setDoc">>)
            /\ UNCHANGED <<store, now>>
    /\ Observe

\* completeWelcomeStep: one updateDoc, rejected when the document is absent.
completeWelcomeStep(uid, designation, additionalData, ok) ==
    /\ IF ~ok
       THEN /\ last' = Step("completeWelcomeStep", uid, NullUser, Null,
                            NoAdditionalData, Found(store, uid), StoreFault, <<"updateDoc">>)
            /\ UNCHANGED <<store, now>>
       ELSE IF ~Exists(store, uid)
       THEN /\ last' = Step("completeWelcomeStep", uid, NullUser, Null,
                            NoAdditionalData, {}, NotFoundFault, <<"updateDoc">>)
            /\ UNCHANGED <<store, now>>
       ELSE /\ now < MaxTime
            /\ now' = now + 1
            /\ store' = updateDoc(store, uid,
                                  WelcomeUpdate(designation, additionalData, now + 1))
            /\ last' = Step("completeWelcomeStep", uid, NullUser, designation,
                            additionalData, Found(store, uid), Resolved, <<"updateDoc">>)
    /\ UNCHANGED inflight
    /\ Observe

\* approveUser as an upsert (setDoc with merge): an absent document is created.
approveUserUpsert(uid, ok) ==
    /\ IF ~ok
       THEN /\ last' = Step("approveUser", uid, NullUser, Null, NoAdditionalData,
                            Found(store, uid), StoreFault, <<"updateDoc">>)
            /\ UNCHANGED <<store, now>>
       ELSE /\ now < MaxTime
            /\ now' = now + 1
            /\ store' = setDoc(store, uid,
                   Spread(IF Exists(store, uid) THEN store[uid]
                          ELSE DefaultProfile([uid |-> uid, email |-> Null,
                                               displayName |-> Null], now + 1),
                          ApproveUpdate(now + 1)))
            /\ last' = Step("approveUser", uid, NullUser, Null, NoAdditionalData,
                            Found(store, uid), Resolved, <<"updateDoc">>)
    /\ UNCHANGED inflight
    /\ Observe

\* approveUser: one updateDoc, rejected when the document is absent.
approveUser(uid, ok) ==
    /\ IF ~ok
       THEN /\ last' = Step("approveUser", uid, NullUser, Null, NoAdditionalData,
                            Found(store, uid), StoreFault, <<"updateDoc">>)
            /\ UNCHANGED <<store, now>>
       ELSE IF ~Exists(store, uid)
       THEN /\ last' = Step("approveUser", uid, NullUser, Null, NoAdditionalData,
                            {}, NotFoundFault, <<"updateDoc">>)
            /\ UNCHANGED <<store, now>>
       ELSE /\ now < MaxTime
            /\ now' = now + 1
            /\ store' = updateDoc(store, uid, ApproveUpdate(now + 1))
            /\ last' = Step("approveUser", uid, NullUser, Null, NoAdditionalData,
                            Found(store, uid), Resolved, <<"updateDoc">>)
    /\ UNCHANGED inflight
    /\ Observe

\* Privileged administration outside of authFlow.ts grants the admin flag.
grantAdmin(uid) ==
    /\ Exists(store, uid)
    /\ ~store[uid].isAdmin
    /\ now < MaxTime
    /\ now' = now + 1
    /\ store' = updateDoc(store, uid, [isAdmin |-> TRUE])
    /\ last' = Step("grantAdmin", uid, NullUser, Null, NoAdditionalData,
                    Found(store, uid), Resolved, <<"updateDoc">>)
    /\ UNCHANGED inflight
    /\ Observe

\* The designation and additionalData of a completeWelcomeStep call.  The
\* call reads neither, so one pair stands for all when the store fails.
WelcomeArguments(ok) ==
    IF ok THEN Designations \X AdditionalData ELSE {<<"", NoAdditionalData>>}

Next ==
    \/ \E user \in FirebaseUser, ok \in BOOLEAN : handleLogin(user, ok)
    \/ \E user \in Identified, ok \in BOOLEAN : bootstrapNewUser(user, ok)
    \/ \E uid \in Uids, ok \in BOOLEAN : approveUser(uid, ok)
    \/ \E uid \in Uids, ok \in BOOLEAN :
          \E args \in WelcomeArguments(ok) :
              completeWelcomeStep(uid, args[1], args[2], ok)
    \/ \E uid \in Uids : grantAdmin(uid)

Spec == Init /\ [][Next]_vars

TypeOK ==
    /\ now \in 0..MaxTime
    /\ DOMAIN store \subseteq Uids
    /\ InFlight <= MaxInFlight

\* ---- properties --------------------------------------------------------
\* The place of a status in pending_profile < pending_admin_approval < active.
Rank(status) ==
    CASE status = "pending_profile" -> 0
      [] status = "pending_admin_approval" -> 1
      [] status = "active" -> 2

\* C1: no step changes the stored onboardingStatus of a record backward in
\* the order pending_profile < pending_admin_approval < active.
C1_StatusNeverMovesBackward ==
    [][\A uid \in DOMAIN store \cap DOMAIN store' :
          (/\ store[uid].onboardingStatus \in OnboardingStatus
           /\ store'[uid].onboardingStatus \in OnboardingStatus)
          => Rank(store'[uid].onboardingStatus) >= Rank(store[uid].onboardingStatus)]_vars

\* C2: in every reachable state, a record whose designation is null has
\* onboardingStatus pending_profile.
C2_NullDesignationOnlyWhilePendingProfile ==
    \A uid \in DOMAIN store :
        store[uid].designation = Null => store[uid].onboardingStatus = "pending_profile"

\* C3: after a completeWelcomeStep on an existing record, whatever the
\* supplemental fields, the record has its uid and isAdmin unchanged and
\* onboardingStatus pending_admin_approval.
C3_SupplementalFieldsNeverOverride ==
    (last.op = "completeWelcomeStep" /\ last.ret = Resolved)
    => \A before \in last.before :
           /\ store[last.uid].uid = before.uid
           /\ store[last.uid].isAdmin = before.isAdmin
           /\ store[last.uid].onboardingStatus = "pending_admin_approval"

\* C4: a handleLogin whose user has a missing or empty uid returns the
\* "Missing Firebase user data." decision as a value, writes nothing to the
\* store and leaves no creation write pending, whatever the store holds.
C4_MissingUidReturnsErrorWithoutWrite ==
    [][(/\ last'.op = "handleLogin"
        /\ (IF last'.user = NullUser THEN TRUE ELSE last'.user.uid \in {"", Undefined}))
       => /\ last'.ret = ErrorDecision("Missing Firebase user data.")
          /\ store' = store
          /\ inflight' = inflight]_vars

\* A handleLogin with an empty uid returned the error over a non-empty store.
C4_Witness ==
    /\ last.op = "handleLogin"
    /\ last.user # NullUser
    /\ last.user.uid = ""
    /\ last.ret = ErrorDecision("Missing Firebase user data.")
    /\ DOMAIN store # {}

\* C5: a handleLogin for a non-empty uid that finds no record goes on to the
\* creation write, and that write, unless the store rejects it, leaves at
\* key uid the record isAdmin=false, pending_profile, designation=null with
\* the uid, email and displayName of the user, adds no other key, changes no
\* other record, and the call returns redirect-to-welcome.
C5_FirstLoginCreatesDefaultRecord ==
    [][/\ (/\ last'.op = "handleLogin"
           /\ last'.uid \in Uids
           /\ last'.uid \notin DOMAIN store
           /\ last'.ret # StoreFault)
          => /\ last'.ret = Suspended
             /\ inflight'[last'.user] = inflight[last'.user] + 1
       /\ (last'.op = "bootstrapNewUser" /\ last'.ret # StoreFault)
          => /\ last'.ret = RedirectWelcome
             /\ DOMAIN store' = DOMAIN store \cup {last'.user.uid}
             /\ store'[last'.user.uid].uid = last'.user.uid
             /\ store'[last'.user.uid].email = last'.user.email
             /\ store'[last'.user.uid].displayName = last'.user.displayName
             /\ store'[last'.user.uid].designation = Null
             /\ store'[last'.user.uid].isAdmin = FALSE
             /\ store'[last'.user.uid].onboardingStatus = "pending_profile"
             /\ \A uid \in DOMAIN store \ {last'.user.uid} : store'[uid] = store[uid]]_vars

\* A first login created the record of a user who has an email and a name,
\* next to the record of another user.
C5_Witness ==
    /\ last.op = "bootstrapNewUser"
    /\ last.ret = RedirectWelcome
    /\ last.before = {}
    /\ last.user.email # Null
    /\ last.user.displayName # Null
    /\ store[last.uid].onboardingStatus = "pending_profile"
    /\ DOMAIN store = Uids

\* C6: a handleLogin that finds a record with isAdmin=true returns
\* redirect-to-admin, whatever the onboardingStatus of the record.
C6_AdminRoutedBeforeStatus ==
    (last.op = "handleLogin" /\ last.ret # StoreFault)
    => \A profile \in last.before :
           profile.isAdmin = TRUE => last.ret = RedirectAdmin

\* An admin whose record carries an unrecognized status was sent to admin.
C6_Witness ==
    /\ last.op = "handleLogin"
    /\ last.ret = RedirectAdmin
    /\ \E profile \in last.before :
           profile.isAdmin /\ profile.onboardingStatus \notin OnboardingStatus

\* C7: a handleLogin that finds a record with isAdmin=false returns the
\* decision its onboardingStatus alone determines: welcome for
\* pending_profile, the "Awaiting admin approval." error for
\* pending_admin_approval, dashboard for active, the "Invalid onboarding
\* status." error for anything else; the errors are returned decisions.
C7_StatusDeterminesDecision ==
    (last.op = "handleLogin" /\ last.ret # StoreFault)
    => \A profile \in last.before :
           profile.isAdmin = FALSE =>
               /\ profile.onboardingStatus = "pending_profile"
                      => last.ret = RedirectWelcome
               /\ profile.onboardingStatus = "pending_admin_approval"
                      => last.ret = [action |-> "error", message |-> "Awaiting admin approval."]
               /\ profile.onboardingStatus = "active"
                      => last.ret = RedirectDashboard
               /\ profile.onboardingStatus \notin OnboardingStatus
                      => last.ret = [action |-> "error", message |-> "Invalid onboarding status."]

\* A non-admin whose record carries an unrecognized status got the error.
C7_Witness ==
    /\ last.op = "handleLogin"
    /\ last.ret = [action |-> "error", message |-> "Invalid onboarding status."]
    /\ \E profile \in last.before :
           ~profile.isAdmin /\ profile.onboardingStatus \notin OnboardingStatus

\* C8 as stated: no step of handleLogin changes a record that exists.
C8_LoginNeverChangesExistingRecord ==
    [][last'.op \in {"handleLogin", "bootstrapNewUser"}
       => \A uid \in DOMAIN store : uid \in DOMAIN store' /\ store'[uid] = store[uid]]_vars

\* C8 as amended: a handleLogin whose read finds a record writes nothing and
\* leaves no write pending; the only write of handleLogin is the creation
\* write after a read that found no record, and that write changes no
\* record but the one at the uid of its user (which it replaces if another
\* call stored one since the read).
C8_LoginWritesOnlyAfterAbsentRead ==
    [][/\ last'.op = "handleLogin" => store' = store
       /\ (last'.op = "handleLogin" /\ last'.uid \in DOMAIN store)
          => inflight' = inflight
       /\ last'.op = "bootstrapNewUser"
          => \A uid \in DOMAIN store \ {last'.uid} :
                 uid \in DOMAIN store' /\ store'[uid] = store[uid]]_vars

\* A creation write replaced a record on which the welcome step had been
\* completed since the read.
C8_Witness ==
    /\ last.op = "bootstrapNewUser"
    /\ last.ret = RedirectWelcome
    /\ \E profile \in last.before : profile.designation = "engineer"
    /\ store[last.uid].designation = Null

\* C9: completeWelcomeStep(uid, d) without additionalData on a record in
\* pending_profile leaves designation = d, onboardingStatus =
\* pending_admin_approval, updatedAt = the server time of the write (later
\* than the one before), and uid, email, displayName, isAdmin and createdAt
\* as they were.
C9_WelcomeStepOnPendingProfile ==
    (/\ last.op = "completeWelcomeStep"
     /\ last.additionalData = NoAdditionalData
     /\ last.ret = Resolved)
    => \A before \in last.before :
           before.onboardingStatus = "pending_profile" =>
               /\ store[last.uid].designation = last.designation
               /\ store[last.uid].onboardingStatus = "pending_admin_approval"
               /\ store[last.uid].updatedAt = now
               /\ store[last.uid].updatedAt > before.updatedAt
               /\ store[last.uid].uid = before.uid
               /\ store[last.uid].email = before.email
               /\ store[last.uid].displayName = before.displayName
               /\ store[last.uid].isAdmin = before.isAdmin
               /\ store[last.uid].createdAt = before.createdAt

\* The welcome step with designation "engineer" completed on a record in
\* pending_profile.
C9_Witness ==
    /\ last.op = "completeWelcomeStep"
    /\ last.additionalData = NoAdditionalData
    /\ last.designation = "engineer"
    /\ last.ret = Resolved
    /\ \E before \in last.before :
           before.onboardingStatus = "pending_profile" /\ before.email # Null
    /\ store[last.uid].designation = "engineer"

\* C10: approveUser on a record in pending_admin_approval leaves
\* onboardingStatus = active and every field but updatedAt as it was.
C10_ApproveChangesOnlyStatus ==
    (last.op = "approveUser" /\ last.ret = Resolved)
    => \A before \in last.before :
           before.onboardingStatus = "pending_admin_approval" =>
               /\ store[last.uid].onboardingStatus = "active"
               /\ \A f \in DOMAIN before \ {"onboardingStatus", "updatedAt"} :
                      store[last.uid][f] = before[f]
               /\ DOMAIN store[last.uid] = DOMAIN before

\* approveUser completed on a record in pending_admin_approval that has a
\* designation.
C10_Witness ==
    /\ last.op = "approveUser"
    /\ last.ret = Resolved
    /\ \E before \in last.before :
           /\ before.onboardingStatus = "pending_admin_approval"
           /\ before.designation = "engineer"
    /\ store[last.uid].onboardingStatus = "active"

\* C11: approveUser on a record that is already active, whenever the store
\* accepts the write, resolves without error and leaves onboardingStatus
\* active and every field other than updatedAt as it was; this holds of
\* every such call, so of any number of them in a row.
C11_ApproveIdempotentOnActive ==
    [][(/\ last'.op = "approveUser"
        /\ last'.uid \in DOMAIN store
        /\ store[last'.uid].onboardingStatus = "active"
        /\ last'.ret # StoreFault)
       => /\ last'.ret = Resolved
          /\ DOMAIN store'[last'.uid] = DOMAIN store[last'.uid]
          /\ store'[last'.uid].onboardingStatus = "active"
          /\ \A f \in DOMAIN store[last'.uid] \ {"updatedAt"} :
                 store'[last'.uid][f] = store[last'.uid][f]]_vars

\* approveUser resolved on a record that an earlier approveUser had made
\* active.
C11_Witness ==
    /\ last.op = "approveUser"
    /\ last.ret = Resolved
    /\ \E before \in last.before :
           /\ before.onboardingStatus = "active"
           /\ before.designation = Null
           /\ before.updatedAt > before.createdAt
    /\ store[last.uid].onboardingStatus = "active"
    /\ store[last.uid].updatedAt = now

\* C12: completeWelcomeStep and approveUser for a uid without a record are
\* rejected and leave the store as it was; a key enters the store only by
\* the creation write of handleLogin, and no key ever leaves it.
C12_PatchOfAbsentRecordFails ==
    [][/\ (/\ last'.op \in {"completeWelcomeStep", "approveUser"}
           /\ last'.uid \notin DOMAIN store)
          => /\ last'.ret \in {NotFoundFault, StoreFault}
             /\ store' = store
       /\ DOMAIN store \subseteq DOMAIN store'
       /\ DOMAIN store' # DOMAIN store => last'.op = "bootstrapNewUser"]_vars

\* Both patches were rejected for a uid without a record while another
\* uid has one.
C12_Witness ==
    /\ last.op \in {"completeWelcomeStep", "approveUser"}
    /\ last.ret = NotFoundFault
    /\ last.uid \notin DOMAIN store
    /\ DOMAIN store # {}

\* C13: when the creation write of a handleLogin lands on a record that
\* another call created since the read, and the store accepts it, the call
\* returns redirect-to-welcome like the first one, and the record at the
\* uid is the default record of this last writer: its uid, email and
\* displayName, isAdmin=false, pending_profile, designation=null, both
\* timestamps the server time of this write.
C13_RacingFirstLoginsLastWriteWins ==
    (/\ last.op = "bootstrapNewUser"
     /\ last.before # {}
     /\ last.ret # StoreFault)
    => /\ last.ret = RedirectWelcome
       /\ last.uid \in DOMAIN store
       /\ store[last.uid] =
              [uid |-> last.user.uid,
               email |-> last.user.email,
               displayName |-> last.user.displayName,
               designation |-> Null,
               isAdmin |-> FALSE,
               onboardingStatus |-> "pending_profile",
               createdAt |-> now,
               updatedAt |-> now]

\* Two logins of one uid with different emails both read "absent"; the
\* second creation write replaced the default record of the first, and no
\* call is left in flight.
C13_Witness ==
    /\ last.op = "bootstrapNewUser"
    /\ last.ret = RedirectWelcome
    /\ \E before \in last.before :
           /\ before.onboardingStatus = "pending_profile"
           /\ before.designation = Null
           /\ before.createdAt = before.updatedAt
           /\ before.email # last.user.email
    /\ store[last.uid].email = last.user.email
    /\ store[last.uid].createdAt = now
    /\ InFlight = 0

\* The operations of authFlow.ts, as last.op names them.
CoreOps == {"handleLogin", "bootstrapNewUser", "completeWelcomeStep", "approveUser"}

\* C14: no step of handleLogin, completeWelcomeStep or approveUser changes
\* the isAdmin of a record that exists, in any interleaving with each other
\* and with the external granting of the flag.
C14_CoreNeverChangesIsAdmin ==
    [][last'.op \in CoreOps
       => \A uid \in DOMAIN store :
              uid \in DOMAIN store' /\ store'[uid].isAdmin = store[uid].isAdmin]_vars

\* C15: no record in pending_admin_approval has an empty designation.
C15_PendingApprovalHasDesignation ==
    \A uid \in DOMAIN store :
        store[uid].onboardingStatus = "pending_admin_approval"
            => store[uid].designation # ""

\* C17: once a record exists no step changes its createdAt, and after
\* every step each record has updatedAt >= createdAt.
C17_CreatedAtSetOnce ==
    [][/\ \A uid \in DOMAIN store :
              uid \in DOMAIN store' /\ store'[uid].createdAt = store[uid].createdAt
       /\ \A uid \in DOMAIN store' :
              store'[uid].updatedAt >= store'[uid].createdAt]_vars

\* C18: every change of a record's onboardingStatus is pending_profile ->
\* pending_admin_approval by completeWelcomeStep or pending_admin_approval
\* -> active by approveUser.
C18_OnlyListedTransitions ==
    [][\A uid \in DOMAIN store \cap DOMAIN store' :
          store'[uid].onboardingStatus # store[uid].onboardingStatus
          => \/ /\ last'.op = "completeWelcomeStep"
                /\ store[uid].onboardingStatus = "pending_profile"
                /\ store'[uid].onboardingStatus = "pending_admin_approval"
             \/ /\ last'.op = "approveUser"
                /\ store[uid].onboardingStatus = "pending_admin_approval"
                /\ store'[uid].onboardingStatus = "active"]_vars

\* C16: an operation issues at most two store calls, a read first and at
\* most one write.  A store call that fails ends the operation with the
\* fault and without a write: a failed read of handleLogin leaves no
\* creation write pending, a failed setDoc ends the call that issued it
\* instead of leaving it pending for another attempt, and a failed
\* updateDoc is the only call of its operation.  The fault is not one of
\* the decisions.
C16_StoreFaultPropagates ==
    [][/\ last'.calls \in {<<>>, <<"getDoc">>, <<"getDoc", "setDoc">>, <<"updateDoc">>}
       /\ last'.ret \in {StoreFault, NotFoundFault}
          => /\ store' = store
             /\ now' = now
             /\ last'.ret \notin {RedirectWelcome, RedirectDashboard, RedirectAdmin}
             /\ "action" \notin DOMAIN last'.ret
       /\ (last'.ret = StoreFault /\ last'.op = "handleLogin")
          => /\ inflight' = inflight
             /\ last'.calls = <<"getDoc">>
       /\ (last'.ret = StoreFault /\ last'.op = "bootstrapNewUser")
          => /\ inflight'[last'.user] = inflight[last'.user] - 1
             /\ \A user \in Identified \ {last'.user} : inflight'[user] = inflight[user]
       /\ last'.op \in {"completeWelcomeStep", "approveUser"}
          => /\ inflight' = inflight
             /\ last'.calls = <<"updateDoc">>]_vars

\* The setDoc of a first login was rejected: the call ended with the fault,
\* no record was created and no call is left in flight.
C16_Witness ==
    /\ last.op = "bootstrapNewUser"
    /\ last.ret = StoreFault
    /\ last.calls = <<"getDoc", "setDoc">>
    /\ last.uid \notin DOMAIN store
    /\ InFlight = 0

\* C19: for a uid whose record has never had isAdmin = true, a handleLogin
\* returns redirect-to-dashboard only after an approveUser has completed on
\* the record, and once a handleLogin has returned "Awaiting admin
\* approval." or redirect-to-dashboard for the uid, no handleLogin that
\* starts later returns redirect-to-welcome for it.
C19_RoutingOnlyMovesForward ==
    [][(/\ last'.op = "handleLogin"
        /\ last'.uid \in Uids
        /\ ~seen'[last'.uid].admin)
       => /\ last'.ret = RedirectDashboard => seen[last'.uid].approved
          /\ seen[last'.uid].gated => last'.ret # RedirectWelcome]_vars
====
